---- MODULE Spec2Model ----
(***************************************************************************)
(* Model of heisantosh/timer (cmd.go): the flag-combination dispatch of    *)
(* Cmd.Run, the countdown of Cmd.timed with its background updater, the    *)
(* composite operations and the sound library kept in the sounds           *)
(* directory.                                                              *)
(*                                                                         *)
(* Go strings are sequences of one-character strings; "" is <<>>.          *)
(* Durations are integers counting nanoseconds, as time.Duration does.     *)
(***************************************************************************)
EXTENDS Integers, Sequences, FiniteSets, TLC

\* ------------------------------------------------------------------ bounds
\* How far the clock may run past the end of the sleep (time.Sleep pauses
\* for AT LEAST the duration; the wake-up and the channel send may be late).
MaxOverrun == 2

VARIABLES
    args,       \* cmd.args after flag.Parse
    sounds,     \* cmd.sounds: name -> path
    dir,        \* the file names in the sounds directory
    fpc,        \* position of the foreground flow
    op,         \* the method Run took from cmd.funcs ("" before dispatch)
    calls,      \* how many methods Run has invoked
    err,        \* the error the run ended with ("" for none)
    status,     \* exit status of the process, NoExit while it runs
    t,          \* timed: the parsed duration
    unit,       \* timed: t / 100
    ticker,     \* timed: the ticker exists
    tickC,      \* ticker.C, a channel with a buffer of one: 0 or 1 tick
    now,        \* ns elapsed since time.NewTicker
    bg,         \* the goroutine of timed: "none", "running", "stopped"
    pc,         \* goroutine local pc
    passed,     \* goroutine local passed
    line,       \* the progress line last printed
    log,        \* the steps of the operations, in the order they happened
    played,     \* the argument vector the play command was run with
    listed,     \* the names listSounds printed
    home,       \* the environment variable HOME
    soundsDir   \* NewCmd: soundsDir, what getSoundsDir() returned

\* Longest value of HOME tried when getSoundsDir is checked on its own.
MaxHomeLen == 4

\* ---------------------------------------------------------- string helpers
Digits == {"0", "1", "2", "3", "4", "5", "6", "7", "8", "9"}

DigitVal(c) ==
    CASE c = "0" -> 0 [] c = "1" -> 1 [] c = "2" -> 2 [] c = "3" -> 3
      [] c = "4" -> 4 [] c = "5" -> 5 [] c = "6" -> 6 [] c = "7" -> 7
      [] c = "8" -> 8 [] c = "9" -> 9

Drop(s, n) == SubSeq(s, n + 1, Len(s))

Take(s, n) == SubSeq(s, 1, n)

Range(s) == {s[i] : i \in 1..Len(s)}

\* Go's integer division truncates toward zero.
Quot(a, b) == IF a >= 0 THEN a \div b ELSE -((-a) \div b)

\* ---------------------------------------------------- time.ParseDuration
\* [-+]?([0-9]+[a-z]+)+ , or the bare "0".  Fractions are not drawn by the
\* inputs below and are not modelled.  Result: [ok, d] with d in ns.  The
\* inputs stay in the nanosecond range (the clock below counts single ns).
unitMap(u) ==
    CASE u = <<"n", "s">> -> 1
      [] u = <<"u", "s">> -> 1000
      [] u = <<"m", "s">> -> 1000000
      [] u = <<"s">>      -> 1000000000
      [] u = <<"m">>      -> 60 * 1000000000
      [] u = <<"h">>      -> 3600 * 1000000000
      [] OTHER            -> 0

\* length of the longest prefix of s made of digits
RECURSIVE LeadingInt(_)
LeadingInt(s) ==
    IF s = <<>> \/ s[1] \notin Digits THEN 0 ELSE 1 + LeadingInt(Tail(s))

\* length of the longest prefix of s with no digit (and no '.')
RECURSIVE LeadingUnit(_)
LeadingUnit(s) ==
    IF s = <<>> \/ s[1] \in Digits \/ s[1] = "." THEN 0
    ELSE 1 + LeadingUnit(Tail(s))

RECURSIVE DecVal(_, _)
DecVal(s, acc) ==
    IF s = <<>> THEN acc ELSE DecVal(Tail(s), 10 * acc + DigitVal(s[1]))

\* the loop "for s != """ of ParseDuration: number, unit, accumulate
RECURSIVE ParseParts(_, _)
ParseParts(s, acc) ==
    IF s = <<>> THEN [ok |-> TRUE, d |-> acc]
    ELSE LET nl == LeadingInt(s)
             r1 == Drop(s, nl)
             ul == LeadingUnit(r1)
             u  == Take(r1, ul)
         IN  IF nl = 0 \/ ul = 0 \/ unitMap(u) = 0
             THEN [ok |-> FALSE, d |-> 0]
             ELSE ParseParts(Drop(r1, ul), acc + DecVal(Take(s, nl), 0) * unitMap(u))

ParseDuration(s) ==
    LET neg  == s # <<>> /\ s[1] = "-"
        body == IF s # <<>> /\ s[1] \in {"-", "+"} THEN Tail(s) ELSE s
        r    == ParseParts(body, 0)
    IN  IF body = <<"0">> THEN [ok |-> TRUE, d |-> 0]
        ELSE IF body = <<>> THEN [ok |-> FALSE, d |-> 0]
        ELSE IF ~r.ok THEN r
        ELSE [ok |-> TRUE, d |-> IF neg THEN -r.d ELSE r.d]

\* ------------------------------------------------------- path helpers
\* filepath.Ext: the suffix beginning at the final dot of the final element
RECURSIVE ExtFrom(_, _)
ExtFrom(s, i) ==
    IF i = 0 \/ s[i] = "/" THEN <<>>
    ELSE IF s[i] = "." THEN Drop(s, i - 1)
    ELSE ExtFrom(s, i - 1)

Ext(s) == ExtFrom(s, Len(s))

\* filepath.Base of a path without trailing slash: what follows the last "/"
RECURSIVE BaseFrom(_, _)
BaseFrom(s, i) ==
    IF i = 0 THEN s
    ELSE IF s[i] = "/" THEN Drop(s, i)
    ELSE BaseFrom(s, i - 1)

Base(s) == IF s = <<>> THEN <<".">> ELSE BaseFrom(s, Len(s))

\* index of the first occurrence of old in s from position i on, 0 if none
RECURSIVE IndexFrom(_, _, _)
IndexFrom(s, old, i) ==
    IF i + Len(old) - 1 > Len(s) THEN 0
    ELSE IF SubSeq(s, i, i + Len(old) - 1) = old THEN i
    ELSE IndexFrom(s, old, i + 1)

\* strings.Replace(s, old, "", 1)
ReplaceFirstWithEmpty(s, old) ==
    LET i == IndexFrom(s, old, 1)
    IN  IF i = 0 THEN s ELSE Take(s, i - 1) \o Drop(s, i - 1 + Len(old))

\* strings.Replace(s, old, new, 1) for a non-empty old
ReplaceFirst(s, old, new) ==
    LET i == IndexFrom(s, old, 1)
    IN  IF i = 0 THEN s ELSE Take(s, i - 1) \o new \o Drop(s, i - 1 + Len(old))

\* strings.Split(s, c) for a one-character separator; cur is the piece begun
RECURSIVE SplitOn(_, _, _)
SplitOn(s, c, cur) ==
    IF s = <<>> THEN <<cur>>
    ELSE IF s[1] = c THEN <<cur>> \o SplitOn(Tail(s), c, <<>>)
    ELSE SplitOn(Tail(s), c, Append(cur, s[1]))

\* the pieces joined again with "/" between them
RECURSIVE JoinWithSlash(_)
JoinWithSlash(elems) ==
    IF elems = <<>> THEN <<>>
    ELSE IF Len(elems) = 1 THEN elems[1]
    ELSE elems[1] \o <<"/">> \o JoinWithSlash(Tail(elems))

\* the element loop of filepath.Clean: empty and "." elements vanish, ".."
\* removes the element before it (at the root it vanishes, at the start of
\* a relative path it stays)
RECURSIVE CleanElems(_, _, _)
CleanElems(elems, rooted, stack) ==
    IF elems = <<>> THEN stack
    ELSE LET e == elems[1]
             rest == Tail(elems)
         IN  IF e = <<>> \/ e = <<".">> THEN CleanElems(rest, rooted, stack)
             ELSE IF e = <<".", ".">>
             THEN IF stack # <<>> /\ stack[Len(stack)] # <<".", ".">>
                  THEN CleanElems(rest, rooted, Take(stack, Len(stack) - 1))
                  ELSE IF rooted THEN CleanElems(rest, rooted, stack)
                  ELSE CleanElems(rest, rooted, Append(stack, e))
             ELSE CleanElems(rest, rooted, Append(stack, e))

\* filepath.Clean
Clean(path) ==
    IF path = <<>> THEN <<".">>
    ELSE LET rooted == path[1] = "/"
             body   == JoinWithSlash(CleanElems(SplitOn(path, "/", <<>>), rooted, <<>>))
         IN  IF rooted THEN <<"/">> \o body
             ELSE IF body = <<>> THEN <<".">>
             ELSE body

RECURSIVE NonEmpty(_)
NonEmpty(elems) ==
    IF elems = <<>> THEN <<>>
    ELSE IF elems[1] = <<>> THEN NonEmpty(Tail(elems))
    ELSE <<elems[1]>> \o NonEmpty(Tail(elems))

\* filepath.Join(elems...): empty elements are ignored, the rest is joined
\* with "/" and cleaned; all empty gives ""
FilepathJoin(elems) ==
    IF NonEmpty(elems) = <<>> THEN <<>>
    ELSE Clean(JoinWithSlash(NonEmpty(elems)))

\* filepath.Join(d, name)
Join(d, name) == FilepathJoin(<<d, name>>)

\* getSoundsDir(): filepath.Join(os.Getenv("HOME"), ".config", "timer",
\* "sounds"); the three directory names are written as single symbols
getSoundsDir == FilepathJoin(<<home, <<".config">>, <<"timer">>, <<"sounds">>>>)

\* name := strings.Replace(filepath.Base(v.Name()), filepath.Ext(v.Name()), "", 1)
SoundName(file) == ReplaceFirstWithEmpty(Base(file), Ext(file))


\* ------------------------------------------------ ordering of file names
\* ioutil.ReadDir returns the entries sorted by file name (byte order).
Code(c) ==
    CASE c = "." -> 46 [] c = "/" -> 47
      [] c = "A" -> 65 [] c = "B" -> 66 [] c = "Z" -> 90
      [] c = "m" -> 109 [] c = "w" -> 119
      [] OTHER -> 127

RECURSIVE LexLess(_, _)
LexLess(a, b) ==
    IF a = <<>> THEN b # <<>>
    ELSE IF b = <<>> THEN FALSE
    ELSE IF a[1] = b[1] THEN LexLess(Tail(a), Tail(b))
    ELSE Code(a[1]) < Code(b[1])

RECURSIVE ReadDir(_)
ReadDir(files) ==
    IF files = {} THEN <<>>
    ELSE LET first == CHOOSE f \in files : \A g \in files \ {f} : LexLess(f, g)
         IN  <<first>> \o ReadDir(files \ {first})

\* m[k] = v of a Go map
MapSet(m, k, v) == [x \in DOMAIN m \cup {k} |-> IF x = k THEN v ELSE m[x]]

EmptyMap == [x \in {} |-> <<>>]

\* the loop of NewCmd over the directory entries
RECURSIVE ScanSounds(_, _)
ScanSounds(fi, m) ==
    IF fi = <<>> THEN m
    ELSE ScanSounds(Tail(fi),
                    MapSet(m, SoundName(fi[1]), Join(getSoundsDir, fi[1])))

NewCmdSounds(files) == ScanSounds(ReadDir(files), EmptyMap)

\* ------------------------------------------------------- dispatch table
_argTime == 1

_argSound == 2

_argSounds == 3

_argNotify == 4

_argAddSound == 5

_argDeleteSound == 6

\* a product where the shift was meant
Shl_Times(k) == 2 * k

Shl(k) == 2 ^ k

RECURSIVE BitOr(_, _)
BitOr(a, b) ==
    IF a = 0 THEN b
    ELSE IF b = 0 THEN a
    ELSE (IF a % 2 = 1 \/ b % 2 = 1 THEN 1 ELSE 0) + 2 * BitOr(a \div 2, b \div 2)

\* the table with the methods of -sound and -sounds exchanged
funcs_SoundSounds ==
    LET e1 == MapSet([x \in {} |-> ""], Shl(_argTime), "timed")
        e2 == MapSet(e1, BitOr(Shl(_argTime), Shl(_argSound)), "timedSound")
        e3 == MapSet(e2, BitOr(Shl(_argTime), Shl(_argNotify)), "timedNotify")
        e4 == MapSet(e3, BitOr(BitOr(Shl(_argTime), Shl(_argSound)), Shl(_argNotify)),
                     "timedSoundNotify")
        e5 == MapSet(e4, Shl(_argSounds), "playSound")
        e6 == MapSet(e5, Shl(_argSound), "listSounds")
        e7 == MapSet(e6, Shl(_argAddSound), "addSound")
        e8 == MapSet(e7, Shl(_argDeleteSound), "deleteSound")
    IN  e8

\* cmd.funcs as NewCmd fills it: argument set -> name of the method
funcs ==
    LET e1 == MapSet([x \in {} |-> ""], Shl(_argTime), "timed")
        e2 == MapSet(e1, BitOr(Shl(_argTime), Shl(_argSound)), "timedSound")
        e3 == MapSet(e2, BitOr(Shl(_argTime), Shl(_argNotify)), "timedNotify")
        e4 == MapSet(e3, BitOr(BitOr(Shl(_argTime), Shl(_argSound)), Shl(_argNotify)),
                     "timedSoundNotify")
        e5 == MapSet(e4, Shl(_argSounds), "listSounds")
        e6 == MapSet(e5, Shl(_argSound), "playSound")
        e7 == MapSet(e6, Shl(_argAddSound), "addSound")
        e8 == MapSet(e7, Shl(_argDeleteSound), "deleteSound")
    IN  e8

\* the bitmap without the test of the last flag
ArgsSet_NoDelete(a) ==
    LET s1 == IF a.time # <<>> THEN BitOr(0, Shl(_argTime)) ELSE 0
        s2 == IF a.sound # <<>> THEN BitOr(s1, Shl(_argSound)) ELSE s1
        s3 == IF a.sounds # FALSE THEN BitOr(s2, Shl(_argSounds)) ELSE s2
        s4 == IF a.notify # FALSE THEN BitOr(s3, Shl(_argNotify)) ELSE s3
        s5 == IF a.addSound # <<>> THEN BitOr(s4, Shl(_argAddSound)) ELSE s4
    IN  s5

\* the bitmap Run builds from the parsed flags
ArgsSet(a) ==
    LET s1 == IF a.time # <<>> THEN BitOr(0, Shl(_argTime)) ELSE 0
        s2 == IF a.sound # <<>> THEN BitOr(s1, Shl(_argSound)) ELSE s1
        s3 == IF a.sounds # FALSE THEN BitOr(s2, Shl(_argSounds)) ELSE s2
        s4 == IF a.notify # FALSE THEN BitOr(s3, Shl(_argNotify)) ELSE s3
        s5 == IF a.addSound # <<>> THEN BitOr(s4, Shl(_argAddSound)) ELSE s4
        s6 == IF a.deleteSound # <<>> THEN BitOr(s5, Shl(_argDeleteSound)) ELSE s5
    IN  s6


\* ------------------------------------------------------------ the inputs
\* values of -time: absent, malformed, zero, negative, shorter than 100ns
\* (unit 0), 100ns, and 101ns written in two parts (100 does not divide it)
TimeArgs ==
    { <<>>, <<"x">>, <<"0", "s">>, <<"-", "1", "0", "0", "n", "s">>,
      <<"5", "0", "n", "s">>, <<"1", "0", "0", "n", "s">>,
      <<"5", "0", "n", "s", "5", "1", "n", "s">> }

\* values of -sound and -deletesound: absent, a name, a name never present
NameArgs == { <<>>, <<"A">>, <<"Z">> }

\* values of -addsound: absent or a file outside the sounds directory: a new
\* name, a name the directory may hold, and a name in which the text of the
\* extension occurs before the extension
AddArgs ==
    { <<>>, <<"/", "B", ".", "m">>, <<"/", "A", ".", "m">>,
      <<"/", "B", ".", "m", "w", ".", "m">> }

\* file names the sounds directory may hold when the process starts
FileNames == { <<"A", ".", "m">>, <<"A", ".", "w">> }

\* values of HOME: a plain directory and one with a space in its name
HomeArgs == { <<"/", "h">>, <<"/", "h", " ", "x">> }

\* values of TIMER_SOUND_CMD: unset, or a command with FILE in the middle
SoundCmdArgs == { <<>>, <<"ffplay", " ", "-i", " ", "FILE", " ", "-nodisp">> }

_defaultSoundCommand ==
    <<"audacious", " ", "--headless", " ", "--quit-after-play", " ", "FILE">>

NoLine == [pct |-> -1, passed |-> 0, remaining |-> 0, total |-> 0]

NoExit == -1

vars == <<args, sounds, dir, fpc, op, calls, err, status, t, unit, ticker,
          tickC, now, bg, pc, passed, line, log, played, listed, home, soundsDir>>

envVars == <<home, soundsDir>>

timerVars == <<t, unit, ticker, tickC, now, bg, pc, passed, line>>

Init ==
    /\ args \in [time : TimeArgs, sound : NameArgs, sounds : BOOLEAN,
                 notify : BOOLEAN, addSound : AddArgs, deleteSound : NameArgs]
    /\ home \in HomeArgs
    /\ soundsDir = getSoundsDir
    /\ dir \in SUBSET FileNames
    /\ sounds = NewCmdSounds(dir)
    /\ fpc = "run"
    /\ op = ""
    /\ calls = 0
    /\ err = ""
    /\ status = NoExit
    /\ t = 0
    /\ unit = 0
    /\ ticker = FALSE
    /\ tickC = 0
    /\ now = 0
    /\ bg = "none"
    /\ pc = 0
    /\ passed = 0
    /\ line = NoLine
    /\ log = <<>>
    /\ played = <<>>
    /\ listed = {}

\* --------------------------------------------------------------- Cmd.Run
\* timedSoundNotify beginning with the lookup of timedSound
Entry_ValidateAll(f) ==
    CASE f = "timed"            -> "timed"
      [] f = "timedSound"       -> "timedSound"
      [] f = "timedNotify"      -> "timed"
      [] f = "timedSoundNotify" -> "timedSound"
      [] f = "listSounds"       -> "listSounds"
      [] f = "playSound"        -> "playSound"
      [] f = "addSound"         -> "addSound"
      [] f = "deleteSound"      -> "deleteSound"

\* timedSound entering the countdown without its lookup
Entry_NoValidate(f) ==
    CASE f = "timed"            -> "timed"
      [] f = "timedSound"       -> "timed"
      [] f = "timedNotify"      -> "timed"
      [] f = "timedSoundNotify" -> "timed"
      [] f = "listSounds"       -> "listSounds"
      [] f = "playSound"        -> "playSound"
      [] f = "addSound"         -> "addSound"
      [] f = "deleteSound"      -> "deleteSound"

\* first position of each method
Entry(f) ==
    CASE f = "timed"            -> "timed"
      [] f = "timedSound"       -> "timedSound"
      [] f = "timedNotify"      -> "timed"
      [] f = "timedSoundNotify" -> "timed"
      [] f = "listSounds"       -> "listSounds"
      [] f = "playSound"        -> "playSound"
      [] f = "addSound"         -> "addSound"
      [] f = "deleteSound"      -> "deleteSound"

\* a method returned err to Run: os.Exit(1)
Fail(e) ==
    /\ err' = e
    /\ status' = 1
    /\ fpc' = "exited"

\* a method returned nil to Run: Run returns, the process ends with 0
Succeed ==
    /\ err' = ""
    /\ status' = 0
    /\ fpc' = "exited"

\* if f, ok := cmd.funcs[argsSet]; ok { f() ... } else "invalid set of options"
Dispatch ==
    /\ fpc = "run"
    /\ LET argsSet == ArgsSet(args)
       IN  IF argsSet \in DOMAIN funcs
           THEN /\ op' = funcs[argsSet]
                /\ calls' = calls + 1
                /\ fpc' = Entry(funcs[argsSet])
                /\ UNCHANGED <<err, status>>
           ELSE /\ Fail("InvalidArgumentCombination")
                /\ UNCHANGED <<op, calls>>
    /\ UNCHANGED <<args, sounds, dir, log, played, listed>>
    /\ UNCHANGED timerVars
    /\ UNCHANGED envVars


\* continue the foreground at position next; "return" is a nil return to Run
Goto(next) ==
    IF next = "return" THEN Succeed
    ELSE /\ fpc' = next
         /\ UNCHANGED <<err, status>>

\* timedSoundNotify playing the sound before it notifies
AfterTimed_PlayFirst(f) ==
    CASE f = "timed"            -> "return"
      [] f = "timedSound"       -> "playSound"
      [] f = "timedNotify"      -> "notify"
      [] f = "timedSoundNotify" -> "playSound"

\* what the dispatched method does after cmd.timed() returned nil
AfterTimed(f) ==
    CASE f = "timed"            -> "return"
      [] f = "timedSound"       -> "playSound"
      [] f = "timedNotify"      -> "notify"
      [] f = "timedSoundNotify" -> "notify"

\* what the dispatched method does after cmd.notify() returned nil
AfterNotify(f) ==
    CASE f = "timedNotify"      -> "return"
      [] f = "timedSoundNotify" -> "playSound"

\* ------------------------------------------------------------- Cmd.timed
\* the parse with its error dropped (t, _ := ...)
TimedParse_IgnoreErr ==
    /\ fpc = "timed"
    /\ log' = Append(log, "timed")
    /\ t' = ParseDuration(args.time).d
    /\ fpc' = "newTicker"
    /\ UNCHANGED <<err, status>>
    /\ UNCHANGED <<args, sounds, dir, op, calls, played, listed>>
    /\ UNCHANGED <<unit, ticker, tickC, now, bg, pc, passed, line>>
    /\ UNCHANGED envVars

\* t, err := time.ParseDuration(cmd.args.time); if err != nil { return err }
TimedParse ==
    /\ fpc = "timed"
    /\ log' = Append(log, "timed")
    /\ LET r == ParseDuration(args.time)
       IN  IF r.ok
           THEN /\ t' = r.d
                /\ fpc' = "newTicker"
                /\ UNCHANGED <<err, status>>
           ELSE /\ Fail("DurationParseError")
                /\ UNCHANGED t
    /\ UNCHANGED <<args, sounds, dir, op, calls, played, listed>>
    /\ UNCHANGED <<unit, ticker, tickC, now, bg, pc, passed, line>>
    /\ UNCHANGED envVars

\* unit := t / 100; ticker := time.NewTicker(t / 100); done := make(chan struct{})
\* time.NewTicker panics on a non-positive interval: the process dies with
\* exit status 2
TimedNewTicker ==
    /\ fpc = "newTicker"
    /\ unit' = Quot(t, 100)
    /\ IF Quot(t, 100) <= 0
       THEN /\ err' = "panic"
            /\ status' = 2
            /\ fpc' = "exited"
            /\ UNCHANGED ticker
       ELSE /\ ticker' = TRUE
            /\ fpc' = "print0"
            /\ UNCHANGED <<err, status>>
    /\ UNCHANGED <<args, sounds, dir, op, calls, log, played, listed>>
    /\ UNCHANGED <<t, tickC, now, bg, pc, passed, line>>
    /\ UNCHANGED envVars

\* fmt.Printf("... %3d%% [passed: %v, remaining: %v, total: %v]", 0, 0, t, t)
TimedPrint0 ==
    /\ fpc = "print0"
    /\ line' = [pct |-> 0, passed |-> 0, remaining |-> t, total |-> t]
    /\ fpc' = "spawn"
    /\ UNCHANGED <<args, sounds, dir, op, calls, err, status, log, played, listed>>
    /\ UNCHANGED <<t, unit, ticker, tickC, now, bg, pc, passed>>
    /\ UNCHANGED envVars

\* go func() { pc := 1; passed := unit; for { select ... } }() ; time.Sleep(t)
TimedSpawn ==
    /\ fpc = "spawn"
    /\ bg' = "running"
    /\ pc' = 1
    /\ passed' = unit
    /\ fpc' = "sleep"
    /\ UNCHANGED <<args, sounds, dir, op, calls, err, status, log, played, listed>>
    /\ UNCHANGED <<t, unit, ticker, tickC, now, line>>
    /\ UNCHANGED envVars

\* one nanosecond passes; every unit the ticker puts a tick in ticker.C and
\* drops it when the slot is taken.  The clock is read from the call of
\* time.Sleep on; the moment by which the ticker is older than the sleep
\* counts as lateness of the wake-up.
Clock ==
    /\ ticker
    /\ fpc \in {"sleep", "send"}
    /\ now < t + MaxOverrun
    /\ now' = now + 1
    /\ tickC' = IF (now + 1) % unit = 0 THEN 1 ELSE tickC
    /\ UNCHANGED <<args, sounds, dir, fpc, op, calls, err, status, log, played, listed>>
    /\ UNCHANGED <<t, unit, ticker, bg, pc, passed, line>>
    /\ UNCHANGED envVars

\* the sleep followed by the expiry message, the send on done left out
TimedWake_NoSend ==
    /\ fpc = "sleep"
    /\ now >= t
    /\ fpc' = "expired"
    /\ UNCHANGED <<args, sounds, dir, op, calls, err, status, log, played, listed>>
    /\ UNCHANGED timerVars
    /\ UNCHANGED envVars

\* time.Sleep(t) returns, not before t has passed
TimedWake ==
    /\ fpc = "sleep"
    /\ now >= t
    /\ fpc' = "send"
    /\ UNCHANGED <<args, sounds, dir, op, calls, err, status, log, played, listed>>
    /\ UNCHANGED timerVars
    /\ UNCHANGED envVars

\* the loop going on after case <-done (a break out of the select only)
UpdaterTick_NoReturn ==
    /\ bg \in {"running", "stopped"}
    /\ tickC = 1
    /\ tickC' = 0
    /\ line' = [pct |-> pc, passed |-> passed, remaining |-> t - passed, total |-> t]
    /\ passed' = passed + unit
    /\ pc' = pc + 1
    /\ UNCHANGED <<args, sounds, dir, fpc, op, calls, err, status, log, played, listed>>
    /\ UNCHANGED <<t, unit, ticker, now, bg>>
    /\ UNCHANGED envVars

\* case <-ticker.C: print the line; passed += unit; pc++
UpdaterTick ==
    /\ bg = "running"
    /\ tickC = 1
    /\ tickC' = 0
    /\ line' = [pct |-> pc, passed |-> passed, remaining |-> t - passed, total |-> t]
    /\ passed' = passed + unit
    /\ pc' = pc + 1
    /\ UNCHANGED <<args, sounds, dir, fpc, op, calls, err, status, log, played, listed>>
    /\ UNCHANGED <<t, unit, ticker, now, bg>>
    /\ UNCHANGED envVars

\* done made with a buffer of one: the send returns at once
StopSignal_Buffered ==
    /\ fpc = "send"
    /\ bg = "running"
    /\ fpc' = "expired"
    /\ UNCHANGED <<args, sounds, dir, op, calls, err, status, log, played, listed>>
    /\ UNCHANGED <<t, unit, ticker, tickC, now, bg, pc, passed, line>>
    /\ UNCHANGED envVars

\* done <- struct{}{} meets case <-done: return  (done has no buffer: the
\* send completes when the goroutine takes the value)
StopSignal ==
    /\ fpc = "send"
    /\ bg = "running"
    /\ bg' = "stopped"
    /\ fpc' = "expired"
    /\ UNCHANGED <<args, sounds, dir, op, calls, err, status, log, played, listed>>
    /\ UNCHANGED <<t, unit, ticker, tickC, now, pc, passed, line>>
    /\ UNCHANGED envVars

\* fmt.Println("... Timer expired!"); return nil
TimedExpired ==
    /\ fpc = "expired"
    /\ log' = Append(log, "expired")
    /\ Goto(AfterTimed(op))
    /\ UNCHANGED <<args, sounds, dir, op, calls, played, listed>>
    /\ UNCHANGED timerVars
    /\ UNCHANGED envVars


\* -------------------------------------------------------- Cmd.timedSound
\* if _, ok := cmd.sounds[cmd.args.sound]; !ok { return errSoundNotFound }
TimedSoundValidate ==
    /\ fpc = "timedSound"
    /\ log' = Append(log, "validate")
    /\ IF args.sound \in DOMAIN sounds
       THEN Goto("timed")
       ELSE Fail("SoundNotFound")
    /\ UNCHANGED <<args, sounds, dir, op, calls, played, listed>>
    /\ UNCHANGED timerVars
    /\ UNCHANGED envVars

\* ------------------------------------------------------------ Cmd.notify
\* beeep.Notify either shows the notification or returns an error
Notify ==
    /\ fpc = "notify"
    /\ log' = Append(log, "notify")
    /\ \E ok \in BOOLEAN :
          IF ok THEN Goto(AfterNotify(op)) ELSE Fail("NotificationError")
    /\ UNCHANGED <<args, sounds, dir, op, calls, played, listed>>
    /\ UNCHANGED timerVars
    /\ UNCHANGED envVars

\* --------------------------------------------------------- Cmd.playSound
\* c := strings.Replace(command, "FILE", cmd.sounds[sound], 1);
\* s := strings.Split(c, " "): the argument vector of exec.Command
PlayArgv(command, path) ==
    SplitOn(ReplaceFirst(IF command = <<>> THEN _defaultSoundCommand ELSE command,
                         <<"FILE">>, path),
            " ", <<>>)

\* the lookup, then exec.Command(s[0], s[1:]...).CombinedOutput(); the
\* command is read from TIMER_SOUND_CMD here; the external command may fail
PlaySound ==
    /\ fpc = "playSound"
    /\ IF args.sound \notin DOMAIN sounds
       THEN /\ Fail("SoundNotFound")
            /\ UNCHANGED <<log, played>>
       ELSE /\ log' = Append(log, "play")
            /\ \E command \in SoundCmdArgs :
                   played' = PlayArgv(command, sounds[args.sound])
            /\ \E ok \in BOOLEAN :
                  IF ok THEN Succeed ELSE Fail("PlaybackError")
    /\ UNCHANGED <<args, sounds, dir, op, calls, listed>>
    /\ UNCHANGED timerVars
    /\ UNCHANGED envVars

\* -------------------------------------------------------- Cmd.listSounds
ListSounds ==
    /\ fpc = "listSounds"
    /\ listed' = DOMAIN sounds
    /\ Succeed
    /\ UNCHANGED <<args, sounds, dir, op, calls, log, played>>
    /\ UNCHANGED timerVars
    /\ UNCHANGED envVars

\* ---------------------------------------------------------- Cmd.addSound
\* ioutil.ReadFile(fileLoc), then ioutil.WriteFile(Join(getSoundsDir(),
\* Base(fileLoc))); either may fail
AddSound ==
    /\ fpc = "addSound"
    /\ \E readOk \in BOOLEAN, writeOk \in BOOLEAN :
          IF readOk /\ writeOk
          THEN /\ dir' = dir \cup {Base(args.addSound)}
               /\ Succeed
          ELSE /\ Fail("SoundFileIOError")
               /\ UNCHANGED dir
    /\ UNCHANGED <<args, sounds, op, calls, log, played, listed>>
    /\ UNCHANGED timerVars
    /\ UNCHANGED envVars

\* ------------------------------------------------------- Cmd.deleteSound
\* the lookup without its return: os.Remove("") follows and fails
DeleteSound_NoReturn ==
    /\ fpc = "deleteSound"
    /\ IF args.deleteSound \notin DOMAIN sounds
       THEN /\ Fail("SoundFileIOError")
            /\ UNCHANGED dir
       ELSE \E ok \in BOOLEAN :
               IF ok
               THEN /\ dir' = dir \ {Base(sounds[args.deleteSound])}
                    /\ Succeed
               ELSE /\ Fail("SoundFileIOError")
                    /\ UNCHANGED dir
    /\ UNCHANGED <<args, sounds, op, calls, log, played, listed>>
    /\ UNCHANGED timerVars
    /\ UNCHANGED envVars

\* the lookup, then os.Remove(fileLoc), which may fail
DeleteSound ==
    /\ fpc = "deleteSound"
    /\ IF args.deleteSound \notin DOMAIN sounds
       THEN /\ Fail("SoundNotFound")
            /\ UNCHANGED dir
       ELSE \E ok \in BOOLEAN :
               IF ok
               THEN /\ dir' = dir \ {Base(sounds[args.deleteSound])}
                    /\ Succeed
               ELSE /\ Fail("SoundFileIOError")
                    /\ UNCHANGED dir
    /\ UNCHANGED <<args, sounds, op, calls, log, played, listed>>
    /\ UNCHANGED timerVars
    /\ UNCHANGED envVars

\* ------------------------------------------------------------------ spec
Next ==
    \/ Dispatch
    \/ TimedSoundValidate
    \/ TimedParse
    \/ TimedNewTicker
    \/ TimedPrint0
    \/ TimedSpawn
    \/ Clock
    \/ TimedWake
    \/ UpdaterTick
    \/ StopSignal
    \/ TimedExpired
    \/ Notify
    \/ PlaySound
    \/ ListSounds
    \/ AddSound
    \/ DeleteSound

Spec == Init /\ [][Next]_vars

\* ---------------------------------------------- getSoundsDir on its own
\* the values of HOME: every string of "/", "h" and "." up to MaxHomeLen
HomeStrings == UNION {[1..n -> {"/", "h", "."}] : n \in 0..MaxHomeLen}

InitDir ==
    /\ home \in HomeStrings
    /\ soundsDir = <<>>
    /\ fpc = "getSoundsDir"
    /\ args = [time |-> <<>>, sound |-> <<>>, sounds |-> FALSE,
               notify |-> FALSE, addSound |-> <<>>, deleteSound |-> <<>>]
    /\ dir = {}
    /\ sounds = EmptyMap
    /\ op = ""
    /\ calls = 0
    /\ err = ""
    /\ status = NoExit
    /\ t = 0
    /\ unit = 0
    /\ ticker = FALSE
    /\ tickC = 0
    /\ now = 0
    /\ bg = "none"
    /\ pc = 0
    /\ passed = 0
    /\ line = NoLine
    /\ log = <<>>
    /\ played = <<>>
    /\ listed = {}

\* soundsDir := getSoundsDir()
CallGetSoundsDir ==
    /\ fpc = "getSoundsDir"
    /\ soundsDir' = getSoundsDir
    /\ fpc' = "gotSoundsDir"
    /\ UNCHANGED <<args, sounds, dir, op, calls, err, status, log, played, listed, home>>
    /\ UNCHANGED timerVars

NextDir == CallGetSoundsDir

SpecDir == InitDir /\ [][NextDir]_vars


\* ================================================================ claims
\* the flags present in an argument record, by name
Present(a) ==
    (IF a.time # <<>> THEN {"time"} ELSE {})
    \cup (IF a.sound # <<>> THEN {"sound"} ELSE {})
    \cup (IF a.sounds THEN {"sounds"} ELSE {})
    \cup (IF a.notify THEN {"notify"} ELSE {})
    \cup (IF a.addSound # <<>> THEN {"addsound"} ELSE {})
    \cup (IF a.deleteSound # <<>> THEN {"deletesound"} ELSE {})

\* the legal combinations and the operation each names
LegalTable ==
    { <<{"time"}, "timed">>,
      <<{"time", "sound"}, "timedSound">>,
      <<{"time", "notify"}, "timedNotify">>,
      <<{"time", "sound", "notify"}, "timedSoundNotify">>,
      <<{"sounds"}, "listSounds">>,
      <<{"sound"}, "playSound">>,
      <<{"addsound"}, "addSound">>,
      <<{"deletesound"}, "deleteSound">> }

LegalSets == {e[1] : e \in LegalTable}

\* one argument record for each of the 64 flag-presence combinations
PresenceCombos ==
    [time : {<<>>, <<"x">>}, sound : {<<>>, <<"A">>}, sounds : BOOLEAN,
     notify : BOOLEAN, addSound : {<<>>, <<"f">>}, deleteSound : {<<>>, <<"A">>}]

\* the flag-presence combinations Run rejects, by its table
RejectedCombos == {a \in PresenceCombos : ArgsSet(a) \notin DOMAIN funcs}

\* C1: when the flags present form a legal combination, Run invokes exactly
\* one method and it is the one the table names for that combination; the
\* run never invokes a second one.
C1_DispatchesNamedOperation ==
    /\ calls <= 1
    /\ (fpc # "run" /\ Present(args) \in LegalSets)
          => /\ calls = 1
             /\ <<Present(args), op>> \in LegalTable
             /\ (log # <<>> =>
                   log[1] = (CASE op = "timedSound" -> "validate"
                               [] op \in {"timed", "timedNotify", "timedSoundNotify"} -> "timed"
                               [] op = "playSound" -> "play"
                               [] OTHER -> "none"))

C1_Witness ==
    /\ Present(args) = {"time", "sound", "notify"}
    /\ op = "timedSoundNotify"
    /\ status = 0

\* C2: when the flags present are not exactly a legal combination, Run
\* invokes nothing: no countdown, no playback, no notification, no change of
\* the sounds directory; it reports an invalid combination and exits with 1.
C2_ExactMatchOnly ==
    (fpc # "run" /\ Present(args) \notin LegalSets)
       => /\ status = 1
          /\ err = "InvalidArgumentCombination"
          /\ op = ""
          /\ calls = 0
          /\ log = <<>>
          /\ line = NoLine
          /\ bg = "none"
          /\ ~ticker
          /\ played = <<>>
          /\ listed = {}
          /\ sounds = NewCmdSounds(dir)

C2_Witness ==
    /\ Present(args) = {"time", "sound", "addsound"}
    /\ status = 1
    /\ err = "InvalidArgumentCombination"

\* C3 as stated: the table holds exactly seven combinations, so 2^6 - 7 of the
\* 64 flag-presence combinations are rejected.
C3_SevenCombinations ==
    /\ Cardinality(DOMAIN funcs) = 7
    /\ Cardinality(RejectedCombos) = 64 - 7
    /\ (fpc # "run" => (err = "InvalidArgumentCombination" <=> ArgsSet(args) \notin DOMAIN funcs))

\* C3 amended: the table holds exactly eight combinations, each mapped to one
\* method, so exactly 2^6 - 8 = 56 of the 64 flag-presence combinations are
\* rejected, and a run is rejected exactly when its combination is one of them.
C3_EightCombinations ==
    /\ Cardinality(DOMAIN funcs) = 8
    /\ Cardinality(RejectedCombos) = 64 - 8
    /\ (fpc # "run" => (err = "InvalidArgumentCombination" <=> ArgsSet(args) \notin DOMAIN funcs))

C3_Witness ==
    /\ Present(args) = {"deletesound"}
    /\ op = "deleteSound"
    /\ status = 0
    /\ Cardinality(DOMAIN funcs) = 8


Expired == "expired" \in Range(log)

\* C4: the expiry message is printed only once the full duration has passed
\* and the updater has taken the stop signal, and from then on (also during
\* a later notification or playback) the updater prints no progress line.
C4_ExpiryAfterStop ==
    [][ /\ (Expired' => (now' >= t' /\ bg' = "stopped"))
        /\ (Expired => (line' = line /\ pc' = pc /\ passed' = passed)) ]_vars

C4_Witness ==
    /\ Expired
    /\ op = "timedSoundNotify"
    /\ "play" \in Range(log)
    /\ pc > 1
    /\ tickC = 1

\* C5 as stated: a countdown of duration 100 (unit 1) prints exactly 100
\* progress updates before the expiry message, whatever the interleaving.
C5_Exactly100Updates ==
    (Expired /\ t = 100 /\ unit = 1) => pc - 1 = 100

\* C6 as stated: every progress line shows a percentage in 0..100, an elapsed
\* time not above the total and a remaining time not below zero, and elapsed
\* never decreases from one line to the next.
C6_LineWithinRange ==
    [][ /\ line' # NoLine =>
              /\ line'.pct \in 0..100
              /\ line'.passed <= line'.total
              /\ line'.remaining >= 0
        /\ (line # NoLine /\ line' # NoLine) => line'.passed >= line.passed ]_vars

\* C7 as stated: a time argument that parses to a duration <= 0 is rejected
\* by timed with an error: no ticker, no goroutine, no crash, exit status 1.
C7_RejectsNonPositive ==
    ( /\ "timed" \in Range(log)
      /\ ParseDuration(args.time).ok
      /\ ParseDuration(args.time).d <= 0
      /\ fpc \notin {"timed", "newTicker"} )
       => /\ status = 1
          /\ err \notin {"", "panic"}
          /\ ~ticker
          /\ bg = "none"

\* C8: a time argument that does not parse makes timed fail with the parse
\* error before anything of the countdown exists; no notification and no
\* playback follow, and the run ends with status 1.
C8_ParseErrorStopsRun ==
    (~ParseDuration(args.time).ok /\ "timed" \in Range(log))
       => /\ status = 1
          /\ err = "DurationParseError"
          /\ ~ticker
          /\ bg = "none"
          /\ now = 0
          /\ line = NoLine
          /\ Range(log) \cap {"expired", "notify", "play"} = {}
          /\ played = <<>>

C8_Witness ==
    /\ op = "timedSoundNotify"
    /\ args.time = <<"x">>
    /\ err = "DurationParseError"
    /\ status = 1

\* C9: with exactly -time and -sound given and the sound not in the library,
\* the run fails with SoundNotFound and status 1 before the countdown: no
\* wait, no progress line, no expiry message, no playback.
C9_TimedSoundPrevalidates ==
    (fpc # "run" /\ Present(args) = {"time", "sound"} /\ args.sound \notin DOMAIN sounds)
       => /\ fpc \in {"timedSound", "exited"}
          /\ (fpc = "exited" => (status = 1 /\ err = "SoundNotFound"))
          /\ Range(log) \subseteq {"validate"}
          /\ ~ticker
          /\ bg = "none"
          /\ now = 0
          /\ line = NoLine
          /\ played = <<>>

C9_Witness ==
    /\ op = "timedSound"
    /\ args.sound = <<"Z">>
    /\ args.time = <<"1", "0", "0", "n", "s">>
    /\ err = "SoundNotFound"
    /\ status = 1

\* the steps of each method, in the order the claim gives them
Steps(f) ==
    CASE f = "timed"            -> <<"timed", "expired">>
      [] f = "timedSound"       -> <<"validate", "timed", "expired", "play">>
      [] f = "timedNotify"      -> <<"timed", "expired", "notify">>
      [] f = "timedSoundNotify" -> <<"timed", "expired", "notify", "play">>
      [] f = "playSound"        -> <<"play">>
      [] OTHER                  -> <<>>

\* C10: the steps of a composite happen in the order given, each only after
\* the one before it succeeded (so notification and playback never precede
\* the expiry message); a run that succeeded did all of them, and after a
\* failure nothing further happens and the run has ended with an error.
C10_StepsInSequence ==
    /\ Len(log) <= Len(Steps(op))
    /\ log = SubSeq(Steps(op), 1, Len(log))
    /\ status = 0 => log = Steps(op)
    /\ err # "" => (fpc = "exited" /\ status \notin {0, NoExit})
    /\ (Range(log) \cap {"notify", "play"} # {} /\ op # "playSound") => Expired

C10_Witness ==
    /\ op = "timedSoundNotify"
    /\ log = <<"timed", "expired", "notify">>
    /\ err = "PlaybackError" \/ err = "SoundNotFound"
    /\ status = 1


\* C11 as stated: playSound with a name that is not in the library fails with
\* SoundNotFound and status 1 without running the play command, and whenever
\* the play command runs, the path the library maps the name to is one of its
\* arguments.
C11_PlaysOnlyMappedPath ==
    /\ (op = "playSound" /\ fpc = "exited" /\ args.sound \notin DOMAIN sounds)
          => /\ status = 1
             /\ err = "SoundNotFound"
             /\ played = <<>>
             /\ "play" \notin Range(log)
    /\ played # <<>> =>
          /\ args.sound \in DOMAIN sounds
          /\ sounds[args.sound] \in Range(Tail(played))


\* C12: deleteSound on a name that is not in the library fails with
\* SoundNotFound and leaves the sounds directory as it was at the start of
\* the run.
C12_DeleteUnknownChangesNothing ==
    [][ /\ (fpc = "deleteSound" /\ args.deleteSound \notin DOMAIN sounds)
              => (err' = "SoundNotFound" /\ status' = 1 /\ dir' = dir)
        /\ fpc = "run" => dir' = dir ]_vars

C12_Witness ==
    /\ op = "deleteSound"
    /\ args.deleteSound = <<"Z">>
    /\ dir = {<<"A", ".", "m">>}
    /\ err = "SoundNotFound"
    /\ status = 1

\* a file name without its extension
TrimExt(f) == Take(f, Len(f) - Len(Ext(f)))

\* C13 as stated: after a successful addSound, the library a fresh run builds
\* from the sounds directory has the source's base name without its extension
\* as a name, mapped to the copied file; the mapping of the run that added
\* the file is not updated.
C13_AddedSoundVisible ==
    [][ (fpc = "addSound" /\ status' = 0) =>
           LET f == Base(args.addSound)
           IN  /\ TrimExt(f) \in DOMAIN NewCmdSounds(dir')
               /\ NewCmdSounds(dir')[TrimExt(f)] = Join(getSoundsDir, f)
               /\ sounds' = sounds ]_vars

\* C14 as stated: every run ends with status 0 or 1, 0 exactly when the
\* operation completed without error.
C14_ExitZeroOrOne ==
    fpc = "exited" => /\ status \in {0, 1}
                      /\ status = 0 <=> err = ""


\* C15 as stated: for every value of HOME, getSoundsDir returns that value
\* followed by /.config/timer/sounds.
C15_HomePlusSuffix ==
    fpc = "gotSoundsDir"
       => soundsDir = home \o <<"/", ".config", "/", "timer", "/", "sounds">>


\* how often timed has been entered
TimedCalls == Cardinality({i \in 1..Len(log) : log[i] = "timed"})

\* C16: the goroutine exists only inside the one execution of timed (between
\* its spawn and the stop signal, while the foreground sleeps or sends), never
\* during a later step or another operation, and once it has taken the stop
\* signal it does nothing more.
C16_UpdaterOnlyInsideTimed ==
    [][ /\ bg' = "running" =>
              /\ fpc' \in {"sleep", "send"}
              /\ op' \in {"timed", "timedSound", "timedNotify", "timedSoundNotify"}
        /\ bg' # "none" => (calls' = 1 /\ TimedCalls' = 1)
        /\ fpc' \in {"expired", "notify", "playSound", "listSounds", "addSound",
                     "deleteSound", "exited"} => bg' # "running"
        /\ bg = "stopped" => (bg' = "stopped" /\ UNCHANGED <<line, pc, passed>>) ]_vars

C16_Witness ==
    /\ bg = "stopped"
    /\ fpc = "playSound"
    /\ tickC = 1
    /\ pc > 1

\* C17: the 0% line is printed before the goroutine is spawned and the expiry
\* message after it has taken the stop signal; while the goroutine lives the
\* foreground only sleeps or waits in the send and changes nothing; a step of
\* the goroutine leaves the library, the directory and the foreground alone.
C17_NoConcurrentPrinting ==
    [][ /\ bg' # "none" => line' # NoLine
        /\ fpc' = "spawn" => (bg' = "none" /\ line'.pct = 0)
        /\ Expired' => bg' = "stopped"
        /\ bg' = "running" => fpc' \in {"sleep", "send"}
        /\ (bg = "running" /\ bg' = "running")
              => UNCHANGED <<log, err, status, sounds, dir, played, listed>>
        /\ (bg = "running" /\ pc' # pc)
              => UNCHANGED <<sounds, dir, played, listed, fpc, log>> ]_vars

C17_Witness ==
    /\ bg = "running"
    /\ fpc = "send"
    /\ line.pct >= 1
    /\ tickC = 1

\* C18 as stated, in the form a finished run shows: every execution of timed
\* with a positive duration that parsed has printed the expiry message when
\* the run is over.
C18_PositiveDurationExpires ==
    ( /\ fpc = "exited"
      /\ "timed" \in Range(log)
      /\ ParseDuration(args.time).ok
      /\ ParseDuration(args.time).d > 0 ) => Expired

\* C19 as stated: with exactly -time, -sound and -notify given and the sound
\* not in the library, the whole countdown runs, the expiry message is printed
\* and the notification raised, and then the run fails with SoundNotFound and
\* status 1 without running the play command.
C19_AlwaysCountsDownFirst ==
    (fpc = "exited" /\ Present(args) = {"time", "sound", "notify"}
                    /\ args.sound \notin DOMAIN sounds)
       => /\ Expired
          /\ now >= t
          /\ "notify" \in Range(log)
          /\ err = "SoundNotFound"
          /\ status = 1
          /\ played = <<>>

\* C19 amended: with those flags and the sound not in the library the sound
\* is not looked up before the countdown; the run never succeeds and never
\* runs the play command; and when it ends with SoundNotFound (status 1) the
\* whole countdown has run, the expiry message is printed and the
\* notification raised.
C19_NotFoundOnlyAfterNotify ==
    (fpc # "run" /\ Present(args) = {"time", "sound", "notify"}
                 /\ args.sound \notin DOMAIN sounds)
       => /\ op = "timedSoundNotify"
          /\ "validate" \notin Range(log)
          /\ (log # <<>> => log[1] = "timed")
          /\ played = <<>>
          /\ "play" \notin Range(log)
          /\ status # 0
          /\ err = "SoundNotFound" =>
                /\ status = 1
                /\ log = <<"timed", "expired", "notify">>
                /\ now >= t
                /\ bg = "stopped"
                /\ line # NoLine

C19_Witness ==
    /\ op = "timedSoundNotify"
    /\ args.sound = <<"Z">>
    /\ err = "SoundNotFound"
    /\ log = <<"timed", "expired", "notify">>
    /\ pc > 1

\* C20 as stated: after a successful deleteSound(name) the library a fresh
\* run builds from the sounds directory does not contain name.
C20_DeletedSoundGone ==
    (op = "deleteSound" /\ status = 0)
       => args.deleteSound \notin DOMAIN NewCmdSounds(dir)

====
